---- MODULE Spec2Model ----
(***************************************************************************)
(* jsonnet_dep_graph: the dependency resolution engine of src/main.rs.     *)
(*                                                                         *)
(* Spec        inner_main running resolve_deps for each root file, one     *)
(*             iteration of resolve_deps' while loop per step, with the    *)
(*             cache shared by the queries of the run.                     *)
(* SpecAnyOrder  the same run with the work-list popped at any index.      *)
(* SpecResolve Resolver::resolve applied to drawn inputs.                  *)
(* SpecScan    scan_ast applied to drawn syntax trees.                     *)
(***************************************************************************)
EXTENDS Integers, Sequences, FiniteSets, TLC

VARIABLES
    fs,          \* storage: path -> [kind, ast]; a path outside it is absent
    jpaths,      \* the --jpath search roots, in the order given
    cache,       \* inner_main's HashMap<PathBuf, Analysis>
    pc,          \* "idle" | "loop" | "exit" (inner_main) | "call" | "ret"
    filepath,    \* the root file of the query in progress
    deps,        \* resolve_deps' deps: HashSet<PathBuf>
    to_expand,   \* resolve_deps' to_expand: Vec<PathBuf>
    printed,     \* the lines println! has written: <<[file, deps], ...>>
    exit_code,   \* -1 while running, then main's ExitCode
    expanded,    \* history: files of this query that passed the deps.contains check
    analyzed,    \* history: the analyze_file calls of the run, [q, file, ok]
    iters,       \* history: iterations of the while loop in this query
    call,        \* the arguments of the function under test (SpecResolve, SpecScan)
    ret          \* its return value

vars == <<fs, jpaths, cache, pc, filepath, deps, to_expand, printed, exit_code,
          expanded, analyzed, iters, call, ret>>

-----------------------------------------------------------------------------
(* Bounds of the model.                                                    *)

\* import sites in one file of the run's storage
MaxImports == 2
\* root files given on the command line
MaxRoots == 2
\* search roots given to Resolver::resolve in SpecResolve
MaxJpaths == 2
\* nodes of a syntax tree handed to scan_ast in SpecScan
MaxNodes == 4

-----------------------------------------------------------------------------
(* Paths: a std::path::Path is the sequence of its components; an absolute *)
(* path starts with the root component "/".                                *)

Range(s) == {s[i] : i \in 1..Len(s)}

NoDuplicates(s) == \A i, j \in 1..Len(s) : s[i] = s[j] => i = j

is_absolute(path) == Len(path) > 0 /\ path[1] = "/"

\* Path::join: an absolute argument replaces the prefix
join(prefix, path) == IF is_absolute(path) THEN path ELSE prefix \o path

\* Path::parent of a path with at least one component
parent(path) == SubSeq(path, 1, Len(path) - 1)

-----------------------------------------------------------------------------
(* Results: Rust's Result<T, String>.                                      *)

Ok(v) == [ok |-> TRUE, val |-> v, err |-> ""]
Err(e) == [ok |-> FALSE, val |-> <<>>, err |-> e]

\* no call made, nothing returned yet
NoCall == [base_dir |-> <<>>, path |-> <<>>]
NoRet == Err("none")

-----------------------------------------------------------------------------
(* Syntax trees: jrsonnet_parser's LocExpr, as [tag, path, kids].  Import  *)
(* and ImportStr carry a path; every variant scan_ast recurses into keeps  *)
(* its sub-expressions, in the order scan_ast visits them, in kids; a      *)
(* literal has neither.                                                    *)

Node(tag, path, kids) == [tag |-> tag, path |-> path, kids |-> kids]
Import(path) == Node("Import", path, <<>>)
ImportStr(path) == Node("ImportStr", path, <<>>)
Arr(kids) == Node("Arr", <<>>, kids)
Num == Node("Num", <<>>, <<>>)

-----------------------------------------------------------------------------
(* Storage.                                                                *)

Absent == [kind |-> "absent", ast |-> Num]
NoAccess == [kind |-> "noaccess", ast |-> Num]
Garbage == [kind |-> "garbage", ast |-> Num]
Source(ast) == [kind |-> "ast", ast |-> ast]

stat(path) == IF path \in DOMAIN fs THEN fs[path] ELSE Absent

is_file(path) == stat(path).kind \in {"garbage", "ast"}

is_dir(path) ==
    \E q \in DOMAIN fs :
        /\ fs[q].kind # "absent"
        /\ Len(q) > Len(path)
        /\ SubSeq(q, 1, Len(path)) = path

\* Path::try_exists: Err when existence cannot be determined
try_exists(path) ==
    IF stat(path).kind = "noaccess" THEN Err("noaccess")
    ELSE Ok(is_file(path) \/ is_dir(path))

\* std::fs::read_to_string
read_to_string(path) ==
    IF is_file(path) THEN Ok(stat(path)) ELSE Err("read")

\* jrsonnet_parser::parse
parse(contents) ==
    IF contents.kind = "ast" THEN Ok(contents.ast) ELSE Err("parse")

-----------------------------------------------------------------------------
(* Resolver::resolve.                                                      *)

Resolver(base_dir, jp) == [base_dir |-> base_dir, jpaths |-> jp]

RECURSIVE probe_jpaths_first(_, _, _)
\* variant: the search roots are probed before the base directory
probe_jpaths_first(resolver, path, i) ==
    LET prefixes == resolver.jpaths \o <<resolver.base_dir>> IN
    IF i > Len(prefixes) THEN Ok(join(resolver.base_dir, path))
    ELSE LET candidate == join(prefixes[i], path)
             exists == try_exists(candidate)
         IN  IF ~exists.ok THEN Err("resolve")
             ELSE IF exists.val THEN Ok(candidate)
             ELSE probe_jpaths_first(resolver, path, i + 1)

RECURSIVE probe(_, _, _)
\* the for loop over once(base_dir).chain(jpaths), from candidate i on
probe(resolver, path, i) ==
    LET prefixes == <<resolver.base_dir>> \o resolver.jpaths IN
    IF i > Len(prefixes) THEN Ok(join(resolver.base_dir, path))
    ELSE LET candidate == join(prefixes[i], path)
             exists == try_exists(candidate)
         IN  IF ~exists.ok THEN Err("resolve")
             ELSE IF exists.val THEN Ok(candidate)
             ELSE probe(resolver, path, i + 1)

resolve(resolver, path) ==
    IF is_absolute(path) THEN Ok(path)
    ELSE IF resolver.jpaths = <<>> THEN Ok(join(resolver.base_dir, path))
    ELSE probe(resolver, path, 1)

-----------------------------------------------------------------------------
(* Analysis, add_path and scan_ast.  An analysis in progress carries the   *)
(* error of the first failed add_path (the ? operator): nothing is added   *)
(* after it.                                                               *)

Analysis(leaf, deep) == [leaf_deps |-> leaf, deep_deps |-> deep]
DefaultAnalysis == Analysis(<<>>, <<>>)

\* variant: the path is pushed without the contains check
add_path_always_push(resolver, paths, path) ==
    LET r == resolve(resolver, path) IN
    IF ~r.ok THEN Err(r.err) ELSE Ok(Append(paths, r.val))

add_path(resolver, paths, path) ==
    LET r == resolve(resolver, path) IN
    IF ~r.ok THEN Err(r.err)
    ELSE IF r.val \in Range(paths) THEN Ok(paths)
    ELSE Ok(Append(paths, r.val))

\* variant: importstr is recorded like import
scan_import_all_deep(resolver, analysis, expr) ==
    LET r == add_path(resolver, analysis.deep_deps, expr.path) IN
    IF r.ok THEN Ok(Analysis(analysis.leaf_deps, r.val)) ELSE Err(r.err)

\* the two base cases of scan_ast's match
scan_import(resolver, analysis, expr) ==
    IF expr.tag = "Import"
    THEN LET r == add_path(resolver, analysis.deep_deps, expr.path) IN
         IF r.ok THEN Ok(Analysis(analysis.leaf_deps, r.val)) ELSE Err(r.err)
    ELSE LET r == add_path(resolver, analysis.leaf_deps, expr.path) IN
         IF r.ok THEN Ok(Analysis(r.val, analysis.deep_deps)) ELSE Err(r.err)

RECURSIVE scan_ast(_, _, _)
RECURSIVE scan_kids(_, _, _, _)

\* the sub-expressions of one node, in order, from kid i on
scan_kids(resolver, analysis, kids, i) ==
    IF i > Len(kids) THEN Ok(analysis)
    ELSE LET r == scan_ast(resolver, analysis, kids[i]) IN
         IF ~r.ok THEN r ELSE scan_kids(resolver, r.val, kids, i + 1)

scan_ast(resolver, analysis, expr) ==
    IF expr.tag \in {"Import", "ImportStr"}
    THEN scan_import(resolver, analysis, expr)
    ELSE scan_kids(resolver, analysis, expr.kids, 1)

analyze_file(jp, file) ==
    LET contents == read_to_string(file) IN
    IF ~contents.ok THEN Err("read")
    ELSE LET ast == parse(contents.val) IN
         IF ~ast.ok THEN Err("parse")
         ELSE scan_ast(Resolver(parent(file), jp), DefaultAnalysis, ast.val)

-----------------------------------------------------------------------------
(* resolve_deps.                                                           *)

EmptyCache == [p \in {} |-> DefaultAnalysis]

insert(c, key, value) ==
    [p \in DOMAIN c \cup {key} |-> IF p = key THEN value ELSE c[p]]

remove(s, i) == SubSeq(s, 1, i - 1) \o SubSeq(s, i + 1, Len(s))

Entry(hit, analysis, c) ==
    [ok |-> TRUE, hit |-> hit, analysis |-> analysis, cache |-> c, err |-> ""]
NoEntry(c, e) ==
    [ok |-> FALSE, hit |-> FALSE, analysis |-> DefaultAnalysis, cache |-> c, err |-> e]

\* Entry::Vacant: r is what analyze_file returned for the key
vacant(c, filename, r) ==
    IF ~r.ok THEN NoEntry(c, r.err)
    ELSE Entry(FALSE, r.val, insert(c, filename, r.val))

\* variant: an occupied entry is handed out as an empty Analysis
cache_entry_hit_empty(c, filename) ==
    IF filename \in DOMAIN c THEN Entry(TRUE, DefaultAnalysis, c)
    ELSE LET r == analyze_file(jpaths, filename) IN
         IF ~r.ok THEN NoEntry(c, r.err)
         ELSE Entry(FALSE, r.val, insert(c, filename, r.val))

\* variant: or_default() instead of the long way: a failed analysis leaves an
\* empty entry and the query goes on
cache_entry_or_default(c, filename) ==
    IF filename \in DOMAIN c THEN Entry(TRUE, c[filename], c)
    ELSE LET r == analyze_file(jpaths, filename) IN
         IF ~r.ok THEN Entry(FALSE, DefaultAnalysis, insert(c, filename, DefaultAnalysis))
         ELSE Entry(FALSE, r.val, insert(c, filename, r.val))

\* variant: the entry is never looked up, every expansion analyzes the file
cache_entry_always_analyze(c, filename) ==
    LET r == analyze_file(jpaths, filename) IN
    IF ~r.ok THEN NoEntry(c, r.err)
    ELSE Entry(FALSE, r.val, insert(c, filename, r.val))

\* match cache.entry(filename): the occupied entry, or the analysis of the
\* file inserted into the vacant one; analyze_file's error inserts nothing
cache_entry(c, filename) ==
    IF filename \in DOMAIN c THEN Entry(TRUE, c[filename], c)
    ELSE vacant(c, filename, analyze_file(jpaths, filename))

Iteration(tag, c, d, t, e) ==
    [tag |-> tag, cache |-> c, deps |-> d, to_expand |-> t, err |-> e]

\* The iteration from the match on: e is the cache entry of the file, d the
\* set with the file inserted, rest the work-list without it.
expand(e, d, rest) ==
    IF ~e.ok THEN Iteration("err", e.cache, d, rest, e.err)
    ELSE Iteration(IF e.hit THEN "hit" ELSE "miss", e.cache,
                   d \cup Range(e.analysis.leaf_deps),
                   rest \o e.analysis.deep_deps, "")

\* variant: leaf deps are put on the work-list along with the deep deps
loop_body_expands_leaves(c, d, t, i) ==
    LET filename == t[i]
        rest == remove(t, i)
    IN  IF filename \in d THEN Iteration("skip", c, d, rest, "")
        ELSE LET e == cache_entry(c, filename) IN
             IF ~e.ok THEN Iteration("err", c, d \cup {filename}, rest, e.err)
             ELSE Iteration(IF e.hit THEN "hit" ELSE "miss", e.cache,
                            d \cup {filename} \cup Range(e.analysis.leaf_deps),
                            rest \o e.analysis.leaf_deps \o e.analysis.deep_deps, "")

\* One iteration of the while loop, taking to_expand[i] (Vec::pop takes the
\* last).  tag: "skip" (already in deps), "hit" (cache entry occupied),
\* "miss" (analyzed and inserted), "err" (analyze_file failed).
loop_body(c, d, t, i) ==
    IF t[i] \in d THEN Iteration("skip", c, d, remove(t, i), "")
    ELSE expand(cache_entry(c, t[i]), d \cup {t[i]}, remove(t, i))

RECURSIVE run_loop(_, _, _)
run_loop(c, d, t) ==
    IF t = <<>> THEN Ok(d)
    ELSE LET r == loop_body(c, d, t, Len(t)) IN
         IF r.tag = "err" THEN Err(r.err)
         ELSE run_loop(r.cache, r.deps, r.to_expand)

\* resolve_deps as a function of the cache it is given
resolve_deps(c, filename) == run_loop(c, {}, <<filename>>)

-----------------------------------------------------------------------------
(* The storage and arguments of a run.                                     *)

FileA == <<"a">>
FileB == <<"b">>
FileC == <<"c">>

RootFiles == {FileA, FileB}

Sites(names) == {Import(<<n>>) : n \in names} \cup {ImportStr(<<n>>) : n \in names}

SeqsUpTo(S, n) == UNION {[1..k -> S] : k \in 0..n}

SourceFiles(names) ==
    {Absent, Garbage} \cup {Source(Arr(s)) : s \in SeqsUpTo(Sites(names), MaxImports)}

\* the third file and the search roots vary together
Environments ==
    { [c |-> Absent, jpaths |-> <<>>],
      [c |-> Source(Arr(<<ImportStr(<<"d">>)>>)), jpaths |-> <<>>],
      [c |-> NoAccess, jpaths |-> << <<"lib">> >>] }

Init ==
    /\ \E a \in SourceFiles({"b", "c"}), b \in SourceFiles({"a", "c"}),
          e \in Environments :
          /\ fs = (FileA :> a) @@ (FileB :> b) @@ (FileC :> e.c)
          /\ jpaths = e.jpaths
    /\ cache = EmptyCache
    /\ pc = "idle"
    /\ filepath = <<>>
    /\ deps = {}
    /\ to_expand = <<>>
    /\ printed = <<>>
    /\ exit_code = -1
    /\ expanded = <<>>
    /\ analyzed = <<>>
    /\ iters = 0
    /\ call = NoCall
    /\ ret = NoRet

-----------------------------------------------------------------------------
(* inner_main and the steps of resolve_deps.                               *)

\* the number of the query in progress, or of the last one
Queries ==
    Len(printed) + (IF pc = "loop" \/ (pc = "exit" /\ exit_code = 1) THEN 1 ELSE 0)

\* for filepath in files: the next root file, resolve_deps's first two lines
StartQuery ==
    /\ pc = "idle"
    /\ Len(printed) < MaxRoots
    /\ \E f \in RootFiles :
          /\ filepath' = f
          /\ to_expand' = <<f>>
    /\ deps' = {}
    /\ expanded' = <<>>
    /\ pc' = "loop"
    /\ ret' = NoRet
    /\ iters' = 0
    /\ UNCHANGED <<fs, jpaths, cache, printed, exit_code, analyzed, call>>

\* deps.contains(&filename): continue
SkipVisited(i) ==
    /\ pc = "loop"
    /\ i \in 1..Len(to_expand)
    /\ \E r \in {loop_body(cache, deps, to_expand, i)} :
          /\ r.tag = "skip"
          /\ to_expand' = r.to_expand
    /\ iters' = iters + 1
    /\ UNCHANGED <<fs, jpaths, cache, pc, filepath, deps, printed, exit_code,
                   expanded, analyzed, call, ret>>

\* Entry::Occupied
ExpandCached(i) ==
    /\ pc = "loop"
    /\ i \in 1..Len(to_expand)
    /\ \E r \in {loop_body(cache, deps, to_expand, i)} :
          /\ r.tag = "hit"
          /\ deps' = r.deps
          /\ to_expand' = r.to_expand
    /\ expanded' = Append(expanded, to_expand[i])
    /\ iters' = iters + 1
    /\ UNCHANGED <<fs, jpaths, cache, pc, filepath, printed, exit_code,
                   analyzed, call, ret>>

\* Entry::Vacant, analyze_file returns Ok
ExpandAnalyzed(i) ==
    /\ pc = "loop"
    /\ i \in 1..Len(to_expand)
    /\ \E r \in {loop_body(cache, deps, to_expand, i)} :
          /\ r.tag = "miss"
          /\ cache' = r.cache
          /\ deps' = r.deps
          /\ to_expand' = r.to_expand
    /\ expanded' = Append(expanded, to_expand[i])
    /\ analyzed' = Append(analyzed, [q |-> Queries, file |-> to_expand[i], ok |-> TRUE])
    /\ iters' = iters + 1
    /\ UNCHANGED <<fs, jpaths, pc, filepath, printed, exit_code, call, ret>>

\* Entry::Vacant, analyze_file returns Err: resolve_deps returns it, inner_main
\* returns it, main prints it and exits with 1
ExpandFailed(i) ==
    /\ pc = "loop"
    /\ i \in 1..Len(to_expand)
    /\ \E r \in {loop_body(cache, deps, to_expand, i)} :
          /\ r.tag = "err"
          /\ cache' = r.cache
          /\ deps' = r.deps
          /\ to_expand' = r.to_expand
          /\ ret' = Err(r.err)
    /\ expanded' = Append(expanded, to_expand[i])
    /\ analyzed' = Append(analyzed, [q |-> Queries, file |-> to_expand[i], ok |-> FALSE])
    /\ iters' = iters + 1
    /\ pc' = "exit"
    /\ exit_code' = 1
    /\ UNCHANGED <<fs, jpaths, filepath, printed, call>>

\* to_expand is empty: Ok(deps), and inner_main prints the line
Return ==
    /\ pc = "loop"
    /\ to_expand = <<>>
    /\ ret' = Ok(deps)
    /\ printed' = Append(printed, [file |-> filepath, deps |-> deps])
    /\ pc' = "idle"
    /\ UNCHANGED <<fs, jpaths, cache, filepath, deps, to_expand, exit_code,
                   expanded, analyzed, iters, call>>

\* no root file is left: Ok(()), exit code 0
Exit ==
    /\ pc = "idle"
    /\ pc' = "exit"
    /\ exit_code' = 0
    /\ UNCHANGED <<fs, jpaths, cache, filepath, deps, to_expand, printed,
                   expanded, analyzed, iters, call, ret>>

Next ==
    \/ StartQuery
    \/ SkipVisited(Len(to_expand))
    \/ ExpandCached(Len(to_expand))
    \/ ExpandAnalyzed(Len(to_expand))
    \/ ExpandFailed(Len(to_expand))
    \/ Return
    \/ Exit

Spec == Init /\ [][Next]_vars

-----------------------------------------------------------------------------
(* The same run with the work-list taken in any order: each iteration      *)
(* takes to_expand[i] for some i instead of the last element.              *)

NextAnyOrder ==
    \/ StartQuery
    \/ \E i \in 1..Len(to_expand) : SkipVisited(i)
    \/ \E i \in 1..Len(to_expand) : ExpandCached(i)
    \/ \E i \in 1..Len(to_expand) : ExpandAnalyzed(i)
    \/ \E i \in 1..Len(to_expand) : ExpandFailed(i)
    \/ Return
    \/ Exit

SpecAnyOrder == Init /\ [][NextAnyOrder]_vars

-----------------------------------------------------------------------------
(* Resolver::resolve on its own: a base directory, up to MaxJpaths search  *)
(* roots, a relative or an absolute import path, and every state of the    *)
(* candidates on storage.                                                  *)

LibExt == <<"lib.ext">>
SearchRoots == {<<"R1">>, <<"R2">>}
BaseDirs == {<<"base">>, <<"R1">>}
Presence == {Absent, NoAccess, Source(Num)}

InitResolve ==
    /\ \E atBase, atR1, atR2 \in Presence :
          fs = (<<"base", "lib.ext">> :> atBase) @@ (<<"R1", "lib.ext">> :> atR1)
                 @@ (<<"R2", "lib.ext">> :> atR2)
    /\ jpaths \in SeqsUpTo(SearchRoots, MaxJpaths)
    /\ \E b \in BaseDirs, p \in {LibExt, <<"/">> \o LibExt} :
          call = [base_dir |-> b, path |-> p]
    /\ ret = NoRet
    /\ pc = "call"
    /\ cache = EmptyCache
    /\ filepath = <<>>
    /\ deps = {}
    /\ to_expand = <<>>
    /\ printed = <<>>
    /\ exit_code = -1
    /\ expanded = <<>>
    /\ analyzed = <<>>
    /\ iters = 0

CallResolve ==
    /\ pc = "call"
    /\ ret' = resolve(Resolver(call.base_dir, jpaths), call.path)
    /\ pc' = "ret"
    /\ UNCHANGED <<fs, jpaths, cache, filepath, deps, to_expand, printed,
                   exit_code, expanded, analyzed, iters, call>>

SpecResolve == InitResolve /\ [][CallResolve]_vars

-----------------------------------------------------------------------------
(* scan_ast on its own: every syntax tree of at most MaxNodes nodes whose  *)
(* imports name x, /x or y, scanned for a file of the directory /, without *)
(* search roots or with the search root /lib.                              *)

RawPaths == {<<"x">>, <<"/", "x">>, <<"y">>}

LeafExprs ==
    {Import(p) : p \in RawPaths} \cup {ImportStr(p) : p \in RawPaths} \cup {Num}

RECURSIVE TreesOfSize(_)
RECURSIVE Forests(_)

TreesOfSize(n) ==
    (IF n = 1 THEN LeafExprs ELSE {}) \cup {Arr(kids) : kids \in Forests(n - 1)}

Forests(m) ==
    IF m = 0 THEN {<<>>}
    ELSE UNION {{<<t>> \o f : t \in TreesOfSize(k), f \in Forests(m - k)} : k \in 1..m}

Trees == UNION {TreesOfSize(n) : n \in 1..MaxNodes}

ScanEnvironments ==
    { [fs |-> (<<"/", "x">> :> Source(Num)), jpaths |-> <<>>],
      [fs |-> (<<"/", "lib", "x">> :> Source(Num)) @@ (<<"/", "y">> :> NoAccess),
       jpaths |-> << <<"/", "lib">> >>] }

InitScan ==
    /\ \E e \in ScanEnvironments :
          /\ fs = e.fs
          /\ jpaths = e.jpaths
    /\ \E t \in Trees : call = [base_dir |-> <<"/">>, path |-> <<>>, ast |-> t]
    /\ ret = NoRet
    /\ pc = "call"
    /\ cache = EmptyCache
    /\ filepath = <<>>
    /\ deps = {}
    /\ to_expand = <<>>
    /\ printed = <<>>
    /\ exit_code = -1
    /\ expanded = <<>>
    /\ analyzed = <<>>
    /\ iters = 0

CallScan ==
    /\ pc = "call"
    /\ ret' = scan_ast(Resolver(call.base_dir, jpaths), DefaultAnalysis, call.ast)
    /\ pc' = "ret"
    /\ UNCHANGED <<fs, jpaths, cache, filepath, deps, to_expand, printed,
                   exit_code, expanded, analyzed, iters, call>>

SpecScan == InitScan /\ [][CallScan]_vars

-----------------------------------------------------------------------------
(* What storage says about a file, independently of any query.             *)

AnalysisOf(file) == analyze_file(jpaths, file)

DeepDepsOf(file) ==
    IF AnalysisOf(file).ok THEN Range(AnalysisOf(file).val.deep_deps) ELSE {}

LeafDepsOf(file) ==
    IF AnalysisOf(file).ok THEN Range(AnalysisOf(file).val.leaf_deps) ELSE {}

RECURSIVE DeepClosure(_)
\* the files reachable from the files of S along deep_deps edges
DeepClosure(S) ==
    LET more == S \cup UNION {DeepDepsOf(f) : f \in S} IN
    IF more = S THEN S ELSE DeepClosure(more)

\* the root, the files it reaches along deep_deps, and their leaf_deps
FullClosure(root) ==
    DeepClosure({root}) \cup UNION {LeafDepsOf(f) : f \in DeepClosure({root})}

\* a query has returned Ok and its line is printed
Returned == pc = "idle" /\ Len(printed) > 0 /\ ret.ok

\* the query has returned: Ok as above, or Err and the run is over
QueryOver == Returned \/ (pc = "exit" /\ exit_code = 1)

-----------------------------------------------------------------------------
(* C1: a successful resolve_deps(cache, search_roots, root) returns a set  *)
(* that contains the root, every file reachable from it along deep_deps    *)
(* edges and every leaf_deps entry of each such file, also when a path is  *)
(* a leaf dependency of one file and a deep dependency of another, or both *)
(* within one file.                                                        *)
C1_ReturnsFullClosure ==
    \A i \in 1..Len(printed) : FullClosure(printed[i].file) \subseteq printed[i].deps

\* The example of C1 does hold: a root that module-imports one file, which
\* text-imports only, and text-imports other paths, gets exactly its closure.
C1_ExampleHolds ==
    \A i \in 1..Len(printed) :
        LET root == printed[i].file IN
        (\E f \in DeepDepsOf(root) :
            /\ f \notin LeafDepsOf(root) \cup {root}
            /\ DeepDepsOf(root) = {f}
            /\ DeepDepsOf(f) = {}
            /\ AnalysisOf(f).ok)
        => printed[i].deps = FullClosure(root)

-----------------------------------------------------------------------------
\* A deep-imports B and nothing else, B deep-imports A and nothing else
TwoCycle(A, B) == A # B /\ DeepDepsOf(A) = {B} /\ DeepDepsOf(B) = {A}

RECURSIVE Pushes(_)
\* the deep_deps entries of the files of S, each file's list counted once
Pushes(S) ==
    IF S = {} THEN 0
    ELSE LET f == CHOOSE g \in S : TRUE IN
         (IF AnalysisOf(f).ok THEN Len(AnalysisOf(f).val.deep_deps) ELSE 0)
             + Pushes(S \ {f})

\* The loop ends: every iteration takes one entry off the work-list, and the
\* work-list only ever receives the root and, once per file, a file's deep_deps.
C2_Terminates == iters + Len(to_expand) <= 1 + Pushes(DOMAIN fs)

\* No file passes the deps.contains check twice in one query.
C2_NoReexpansion == NoDuplicates(expanded)

\* The set returned for a root of a two-file cycle.
C2_CycleResult ==
    \A i \in 1..Len(printed) : \A B \in DOMAIN fs :
        LET A == printed[i].file IN
        TwoCycle(A, B) =>
            printed[i].deps = {A, B} \cup LeafDepsOf(A) \cup LeafDepsOf(B)

(* C2: resolve_deps terminates on every import graph, cyclic ones          *)
(* included (C2_Terminates); no file is expanded more than once within one *)
(* query (C2_NoReexpansion); and for A deep-importing B and B              *)
(* deep-importing A, resolve_deps(A) returns {A, B} plus the leaf deps of  *)
(* A and of B (C2_CycleResult).                                            *)
C2_CycleSafety == C2_Terminates /\ C2_NoReexpansion /\ C2_CycleResult

-----------------------------------------------------------------------------
\* what the implemented order (the last element first) returns for a root
LastFirst(root) == resolve_deps(EmptyCache, root)

(* C3: the order in which pending deep dependencies are taken from the     *)
(* work-list does not change the set resolve_deps returns: every order     *)
(* returns a set where the implemented order returns one, and the same     *)
(* set.  Checked under SpecAnyOrder.                                       *)
C3_OrderIndependent ==
    /\ \A i \in 1..Len(printed) :
          LastFirst(printed[i].file).ok /\ LastFirst(printed[i].file).val = printed[i].deps
    /\ (pc = "exit" /\ exit_code = 1) => ~LastFirst(filepath).ok

-----------------------------------------------------------------------------
(* C4: cache reuse is unobservable: what a query returns with the cache    *)
(* shared by the queries of the run (a set, which is then printed, or an   *)
(* error) is what resolve_deps returns for that root when started with an  *)
(* empty cache.                                                            *)
C4_CacheUnobservable ==
    QueryOver =>
        /\ resolve_deps(EmptyCache, filepath) = ret
        /\ ret.ok => printed[Len(printed)] = [file |-> filepath, deps |-> ret.val]

\* the second query, for another root, expanded a file the first had analyzed
C4_SharedDeepDep ==
    /\ Returned
    /\ Len(printed) = 2
    /\ printed[1].file # printed[2].file
    /\ \E k \in 1..Len(analyzed) :
          /\ analyzed[k].q = 1
          /\ analyzed[k].file \in Range(expanded)
          /\ LeafDepsOf(analyzed[k].file) # {}

-----------------------------------------------------------------------------
(* C5: when reading, parsing or import resolution fails for the file a     *)
(* query is expanding, the query returns that error and no set, nothing is *)
(* printed for that root, and the cache has no entry for the file; a file  *)
(* whose analysis succeeds gets that analysis as its entry, and the query  *)
(* goes on only past such files.                                           *)
C5_FailFast ==
    expanded # <<>> =>
        LET f == expanded[Len(expanded)]
            a == AnalysisOf(f)
        IN  /\ \A k \in 1..(Len(expanded) - 1) : expanded[k] \in DOMAIN cache
            /\ a.ok => (f \in DOMAIN cache /\ cache[f] = a.val)
            /\ ~a.ok =>
                  /\ pc = "exit" /\ exit_code = 1
                  /\ ret = Err(a.err)
                  /\ f \notin DOMAIN cache
                  /\ \A i \in 1..Len(printed) : i < Queries

\* a query failed on import resolution after another file had been analyzed
C5_ResolutionFailed ==
    /\ pc = "exit"
    /\ ret = Err("resolve")
    /\ Len(expanded) > 1
    /\ DOMAIN cache # {}

-----------------------------------------------------------------------------
Candidates ==
    [i \in 1..(Len(jpaths) + 1) |-> join((<<call.base_dir>> \o jpaths)[i], call.path)]

Exists(path) == is_file(path) \/ is_dir(path)
Unknown(path) == stat(path).kind = "noaccess"

\* candidate i is the first one that exists or cannot be probed
FirstDecided(i) ==
    /\ Exists(Candidates[i]) \/ Unknown(Candidates[i])
    /\ \A j \in 1..(i - 1) : ~Exists(Candidates[j]) /\ ~Unknown(Candidates[j])

(* C6: for a relative path and a non-empty list of search roots,           *)
(* Resolver::resolve probes base_dir/path, then each search root joined    *)
(* with path in the order given, and returns the first candidate that      *)
(* exists; when none exists it returns base_dir/path without error.  (A    *)
(* probe that cannot be made, before any candidate was found, is the only  *)
(* error.)  Checked under SpecResolve.                                     *)
C6_FirstExistingCandidate ==
    (pc = "ret" /\ ~is_absolute(call.path) /\ jpaths # <<>>) =>
        /\ \A i \in DOMAIN Candidates :
              (FirstDecided(i) /\ Exists(Candidates[i])) => ret = Ok(Candidates[i])
        /\ \A i \in DOMAIN Candidates :
              (FirstDecided(i) /\ Unknown(Candidates[i])) => ~ret.ok
        /\ (\A i \in DOMAIN Candidates : ~FirstDecided(i)) =>
              ret = Ok(call.base_dir \o call.path)

\* roots [R1, R2], the file only under R2: resolve returns R2/lib.ext
C6_OnlyUnderSecondRoot ==
    /\ pc = "ret"
    /\ call = [base_dir |-> <<"base">>, path |-> LibExt]
    /\ jpaths = << <<"R1">>, <<"R2">> >>
    /\ ~Exists(<<"base", "lib.ext">>) /\ ~Unknown(<<"base", "lib.ext">>)
    /\ ~Exists(<<"R1", "lib.ext">>) /\ ~Unknown(<<"R1", "lib.ext">>)
    /\ Exists(<<"R2", "lib.ext">>)
    /\ ret = Ok(<<"R2", "lib.ext">>)

-----------------------------------------------------------------------------
(* The import sites of a tree, in the order of the walk.                   *)

RECURSIVE ImportSites(_)
RECURSIVE SitesFrom(_, _)

SitesFrom(kids, i) ==
    IF i > Len(kids) THEN <<>> ELSE ImportSites(kids[i]) \o SitesFrom(kids, i + 1)

ImportSites(expr) ==
    IF expr.tag \in {"Import", "ImportStr"} THEN <<expr>> ELSE SitesFrom(expr.kids, 1)

\* the resolved paths of the sites of one construct, in walk order
PathsVia(tag) ==
    LET sites == SelectSeq(ImportSites(call.ast), LAMBDA site : site.tag = tag) IN
    [i \in 1..Len(sites) |->
        resolve(Resolver(call.base_dir, jpaths), sites[i].path).val]

FirstIndex(s, x) ==
    CHOOSE i \in 1..Len(s) : s[i] = x /\ \A j \in 1..(i - 1) : s[j] # x

\* scan_ast has returned an Analysis
Scanned == pc = "ret" /\ ret.ok

-----------------------------------------------------------------------------
(* C7, as claimed: in every Analysis scan_ast produces no path is in both  *)
(* leaf_deps and deep_deps.  Checked under SpecScan.                       *)
C7_ListsDisjoint ==
    Scanned => Range(ret.val.leaf_deps) \cap Range(ret.val.deep_deps) = {}

(* C7, as amended: each import site adds its path to the list of its own   *)
(* construct only, so leaf_deps holds exactly the paths imported with      *)
(* importstr, deep_deps exactly those imported with import, and a path is  *)
(* in both lists exactly when the tree imports it through both constructs. *)
C7_ClassifiedByConstruct ==
    Scanned =>
        /\ Range(ret.val.leaf_deps) = Range(PathsVia("ImportStr"))
        /\ Range(ret.val.deep_deps) = Range(PathsVia("Import"))
        /\ Range(ret.val.leaf_deps) \cap Range(ret.val.deep_deps)
              = Range(PathsVia("ImportStr")) \cap Range(PathsVia("Import"))

\* a tree importing one path through both constructs, and another through one
C7_ImportedBothWays ==
    /\ Scanned
    /\ Range(ret.val.leaf_deps) \cap Range(ret.val.deep_deps) # {}
    /\ Range(ret.val.leaf_deps) # Range(ret.val.deep_deps)

-----------------------------------------------------------------------------
FirstSeenOrder(list, met) ==
    /\ NoDuplicates(list)
    /\ Range(list) = Range(met)
    /\ \A i, j \in 1..Len(list) :
          i < j => FirstIndex(met, list[i]) < FirstIndex(met, list[j])

(* C8: after the add_path calls of one tree walk, leaf_deps and deep_deps  *)
(* each hold no path twice, hold every path imported through their         *)
(* construct, and keep the paths in the order in which the walk first met  *)
(* each of them through that construct; a path imported twice through one  *)
(* construct is in that list once.  Checked under SpecScan.                *)
C8_DedupInFirstSeenOrder ==
    Scanned =>
        /\ FirstSeenOrder(ret.val.leaf_deps, PathsVia("ImportStr"))
        /\ FirstSeenOrder(ret.val.deep_deps, PathsVia("Import"))

\* a path imported twice through one construct, another path in between
C8_ImportedTwice ==
    /\ Scanned
    /\ \E tag \in {"Import", "ImportStr"} :
          LET met == PathsVia(tag) IN
          /\ Len(met) = 3
          /\ met[1] = met[3]
          /\ met[1] # met[2]
          /\ Len(ret.val.leaf_deps) + Len(ret.val.deep_deps) = 2

-----------------------------------------------------------------------------
CacheEntriesKept ==
    \A p \in DOMAIN cache : p \in DOMAIN cache' /\ cache'[p] = cache[p]

(* C9: in a run each file path is analyzed at most once: a cache entry is  *)
(* never removed or changed, every analyzed file has one, and an expansion *)
(* of a path that has one does not call analyze_file again, in the same or *)
(* in a later query.                                                       *)
C9_AnalyzedOnce ==
    /\ [][CacheEntriesKept]_vars
    /\ [](\A j, k \in 1..Len(analyzed) : analyzed[j].file = analyzed[k].file => j = k)
    /\ [](\A k \in 1..Len(analyzed) :
              analyzed[k].ok => analyzed[k].file \in DOMAIN cache)

\* the same root queried twice: the second query analyzed nothing
C9_SecondQueryFromCache ==
    /\ Returned
    /\ Len(printed) = 2
    /\ Len(expanded) > 1
    /\ \A k \in 1..Len(analyzed) : analyzed[k].q = 1

-----------------------------------------------------------------------------
\* the deep_deps of the files this query has expanded
DeepOfExpanded ==
    UNION {Range(cache[f].deep_deps) : f \in Range(expanded) \cap DOMAIN cache}

\* p is in the result set only as a leaf dependency
LeafOnly(p) == p \in deps /\ p # filepath /\ p \notin DeepOfExpanded

AnalyzedInQuery(p) ==
    \E k \in 1..Len(analyzed) : analyzed[k].q = Queries /\ analyzed[k].file = p

(* C10: leaf dependencies are terminal: a path reached only as a leaf      *)
(* dependency is in the result set but is never on the work-list, never    *)
(* expanded and never analyzed (so never given a cache entry) by the       *)
(* query, so a leaf dependency missing on storage does not fail the query; *)
(* a query fails only on a file expanded as the root or as a deep          *)
(* dependency.                                                             *)
C10_LeafDepsTerminal ==
    /\ \A p \in deps :
          LeafOnly(p) =>
              /\ p \notin Range(to_expand)
              /\ p \notin Range(expanded)
              /\ ~AnalyzedInQuery(p)
    /\ \A k \in 1..Len(analyzed) : analyzed[k].q = Queries => ~LeafOnly(analyzed[k].file)
    /\ (pc = "exit" /\ exit_code = 1) =>
          LET f == expanded[Len(expanded)] IN f = filepath \/ f \in DeepOfExpanded

\* a query returned a set holding a leaf dependency that is not on storage
C10_MissingLeafReturned ==
    /\ Returned
    /\ \E p \in deps : LeafOnly(p) /\ ~is_file(p) /\ p \notin DOMAIN cache

====
